---- MODULE Spec2Model ----
(***************************************************************************)
(* Model of the buddy page allocator of src/buddy.c.                       *)
(*                                                                         *)
(* Addresses are absolute byte addresses (integers); NULL is 0.  The block *)
(* headers live inside the managed region, so the region is modelled as a  *)
(* partial map `mem` from the address of every header written so far to    *)
(* the header's two fields.  The free lists are the singly linked lists    *)
(* the code keeps: a head pointer per rank and the `next` fields in `mem`. *)
(*                                                                         *)
(* Ghost state (not in the code): `held` is the set of blocks handed out   *)
(* by alloc_pages and not yet returned, each with the rank it was          *)
(* requested with; `hist` records the last call, its result and the state  *)
(* it was made in; `lastChange` records the last call that changed the     *)
(* state, with the free counts it started from; `nops` counts the calls    *)
(* that changed the state and bounds the exploration.  A call that never   *)
(* returns is recorded in `hist` with the result HANG, and nothing is      *)
(* called after it.                                                        *)
(***************************************************************************)
EXTENDS Integers, Sequences, FiniteSets, TLC

VARIABLES memory_base, total_pages, max_rank, free_lists, mem, held, hist,
          lastChange, nops

vars == <<memory_base, total_pages, max_rank, free_lists, mem, held, hist,
          lastChange, nops>>

\* The allocator's own state: the statics of buddy.c and the managed region.
allocState == <<memory_base, total_pages, max_rank, free_lists, mem>>

----------------------------------------------------------------------------
(* Program constants *)

NULL == 0

MAX_RANK == 16

PAGE_SIZE == 4 * 1024

\* sizeof(struct block_header): an int, padding and a pointer (LP64).
HDR_SIZE == 16

----------------------------------------------------------------------------
(* Bounds of the exploration *)

\* Calls that change the allocator's state in one behaviour (failed calls and
\* queries are not counted: they leave it as it was).
MaxOps == 5

\* The same, on an arena that reaches the largest rank (2^(MAX_RANK-1) pages),
\* where every call succeeds and every split cascade is long.
MaxOpsLarge == 3

\* Blocks held by the caller at one time.
MaxHeld == 3

----------------------------------------------------------------------------
(* Arithmetic helpers *)

RECURSIVE Pow2(_)
Pow2(n) == IF n <= 0 THEN 1 ELSE 2 * Pow2(n - 1)

Min(a, b) == IF a < b THEN a ELSE b

\* x ^ s for s a power of two: flips the one bit of x that s has set.
XorPow2(x, s) == IF (x \div s) % 2 = 1 THEN x - s ELSE x + s

rank_to_size(rank) == PAGE_SIZE * Pow2(rank - 1)

is_valid_address(addr) ==
    /\ memory_base # NULL
    /\ addr >= memory_base
    /\ addr < memory_base + total_pages * PAGE_SIZE

get_offset(addr) == addr - memory_base

get_address(offset) == memory_base + offset

get_buddy(addr, rank) == get_address(XorPow2(get_offset(addr), rank_to_size(rank)))

----------------------------------------------------------------------------
(* The managed region and the linked free lists *)

\* Writing a header at address a.
Store(m, a, h) == [x \in (DOMAIN m) \cup {a} |-> IF x = a THEN h ELSE m[x]]

Header(r, n) == [rank |-> r, next |-> n]

\* The blocks of a list in link order, from head pointer h.  The walk stops at
\* NULL, and at the first block it meets a second time.
RECURSIVE Walk(_, _, _)
Walk(m, h, seen) ==
    IF h = NULL \/ h \in seen THEN <<>>
    ELSE <<h>> \o Walk(m, m[h].next, seen \cup {h})

ListOf(fl, m, rank) == Walk(m, fl[rank], {})

Range(s) == {s[i] : i \in 1..Len(s)}

\* The list does not end: the last block the walk reaches links back to one
\* it has already visited.
Cyclic(fl, m, rank) ==
    LET s == ListOf(fl, m, rank)
    IN  s # <<>> /\ m[s[Len(s)]].next # NULL

\* The position of target in sequence s, 0 when absent.
IndexOf(s, target) ==
    IF target \in Range(s)
    THEN CHOOSE i \in 1..Len(s) : s[i] = target /\ \A j \in 1..(i - 1) : s[j] # target
    ELSE 0

\* The unlink loops of return_pages: walk the rank's list with `prev` and
\* `current`; at the first node equal to target store its next in *prev.  The
\* loop ends at NULL only: on a list that does not end and does not hold the
\* target it runs for ever.
Unlink(fl, m, rank, target) ==
    LET s == ListOf(fl, m, rank)
        i == IndexOf(s, target)
    IN  IF i = 0
        THEN [found |-> FALSE, hang |-> Cyclic(fl, m, rank), fl |-> fl, mem |-> m]
        ELSE IF i = 1
        THEN [found |-> TRUE, hang |-> FALSE,
              fl |-> [fl EXCEPT ![rank] = m[target].next], mem |-> m]
        ELSE [found |-> TRUE, hang |-> FALSE, fl |-> fl,
              mem |-> [m EXCEPT ![s[i - 1]].next = m[target].next]]

----------------------------------------------------------------------------
(* Results and the call record *)

Ok(v)  == [err |-> "OK", val |-> v]
Err(e) == [err |-> e, val |-> 0]

\* The call never returns.
Hang == [err |-> "HANG", val |-> 0]

\* No call is stuck in a loop: the caller can make its next call.
Running == hist.ret.err # "HANG"

Snapshot == [memory_base |-> memory_base, total_pages |-> total_pages,
             max_rank |-> max_rank, free_lists |-> free_lists, mem |-> mem,
             held |-> held, lastChange |-> lastChange]

Call(op, arg, ret) == [op |-> op, arg |-> arg, ret |-> ret, pre |-> Snapshot]

\* What query_page_counts(rank) returns in state st, for rank in 1..MAX_RANK.
FreeCount(st, rank) ==
    IF st.memory_base = NULL THEN 0
    ELSE IF rank > st.max_rank THEN 0
    ELSE Len(ListOf(st.free_lists, st.mem, rank))

Counts(st) == [k \in 1..MAX_RANK |-> FreeCount(st, k)]

Change(op, arg, ret) == [op |-> op, arg |-> arg, ret |-> ret, counts |-> Counts(Snapshot)]

\* The state-changing calls the exploration still has in hand.
OpsLeft ==
    nops < (IF total_pages >= Pow2(MAX_RANK - 1) THEN MaxOpsLarge ELSE MaxOps)

----------------------------------------------------------------------------
(* init_page *)

\* The while loop of init_page that grows max_rank.
RECURSIVE MaxRankLoop(_, _, _)
MaxRankLoop(mr, current_size, pages) ==
    IF current_size <= pages * PAGE_SIZE /\ mr < MAX_RANK
    THEN MaxRankLoop(mr + 1, current_size * 2, pages)
    ELSE mr

ComputeMaxRank(pages) == MaxRankLoop(1, PAGE_SIZE, pages) - 1

\* Arguments tried.  Page counts stay below 2^19, where the int product
\* total_pages * PAGE_SIZE would overflow.
ArenaBase == 16 * PAGE_SIZE
InitPageCounts == {1, 3, 4, 6, 8, 16, Pow2(MAX_RANK - 1)}
InitArgs == {<<NULL, 4>>, <<ArenaBase, 0>>}
                \cup {<<ArenaBase, n>> : n \in InitPageCounts}

InitFails(p, pgcount) == p = NULL \/ pgcount <= 0

\* InitPage storing its arguments before it validates them.
InitPageStoresFirst ==
    Running /\ \E a \in InitArgs :
      LET p == a[1]
          pgcount == a[2]
      IN IF InitFails(p, pgcount)
         THEN /\ hist' = Call("init", <<p, pgcount>>, Err("EINVAL"))
              /\ memory_base' = p
              /\ total_pages' = pgcount
              /\ UNCHANGED <<max_rank, free_lists, mem, held, nops, lastChange>>
         ELSE /\ memory_base = NULL
              /\ OpsLeft
              /\ nops' = nops + 1
              /\ LET mr == ComputeMaxRank(pgcount)
                     cleared == [i \in 0..MAX_RANK |-> NULL]
                 IN  /\ memory_base' = p
                     /\ total_pages' = pgcount
                     /\ max_rank' = mr
                     /\ mem' = Store(mem, p, Header(mr, cleared[mr]))
                     /\ free_lists' = [cleared EXCEPT ![mr] = p]
              /\ hist' = Call("init", <<p, pgcount>>, Ok(0))
              /\ lastChange' = Change("init", <<p, pgcount>>, Ok(0))
              /\ UNCHANGED held

InitPage ==
    Running /\ \E a \in InitArgs :
      LET p == a[1]
          pgcount == a[2]
      IN IF InitFails(p, pgcount)
         THEN /\ hist' = Call("init", <<p, pgcount>>, Err("EINVAL"))
              /\ UNCHANGED <<memory_base, total_pages, max_rank, free_lists, mem, held, nops, lastChange>>
         ELSE \* the caller initialises an arena once
              /\ memory_base = NULL
              /\ OpsLeft
              /\ nops' = nops + 1
              /\ LET mr == ComputeMaxRank(pgcount)
                     cleared == [i \in 0..MAX_RANK |-> NULL]
                 IN  /\ memory_base' = p
                     /\ total_pages' = pgcount
                     /\ max_rank' = mr
                     /\ mem' = Store(mem, p, Header(mr, cleared[mr]))
                     /\ free_lists' = [cleared EXCEPT ![mr] = p]
              /\ hist' = Call("init", <<p, pgcount>>, Ok(0))
              /\ lastChange' = Change("init", <<p, pgcount>>, Ok(0))
              /\ UNCHANGED held

----------------------------------------------------------------------------
(* alloc_pages *)

\* The scan for the smallest rank >= rank with a free block.
RECURSIVE ScanRank(_, _, _)
ScanRank(fl, current_rank, mr) ==
    IF current_rank <= mr /\ fl[current_rank] = NULL
    THEN ScanRank(fl, current_rank + 1, mr)
    ELSE current_rank

\* SplitStep leaving the block it splits on its list.
SplitStepKeepsBlock(fl, m, current_rank) ==
    LET block    == fl[current_rank]
        new_rank == current_rank - 1
        m1       == Store(m, block, Header(new_rank, fl[new_rank]))
        fl2      == [fl EXCEPT ![new_rank] = block]
        buddy2   == block + rank_to_size(new_rank)
        m2       == Store(m1, buddy2, Header(new_rank, fl2[new_rank]))
        fl3      == [fl2 EXCEPT ![new_rank] = buddy2]
    IN  [fl |-> fl3, mem |-> m2]

\* SplitStep pushing the second half only.
SplitStepDropsFirstHalf(fl, m, current_rank) ==
    LET block    == fl[current_rank]
        fl1      == [fl EXCEPT ![current_rank] = m[block].next]
        new_rank == current_rank - 1
        buddy2   == block + rank_to_size(new_rank)
        m2       == Store(m, buddy2, Header(new_rank, fl1[new_rank]))
        fl3      == [fl1 EXCEPT ![new_rank] = buddy2]
    IN  [fl |-> fl3, mem |-> m2]

\* SplitStep pushing the second half first, so that the first half is the one
\* taken next.
SplitStepLowFirst(fl, m, current_rank) ==
    LET block    == fl[current_rank]
        fl1      == [fl EXCEPT ![current_rank] = m[block].next]
        new_rank == current_rank - 1
        buddy2   == block + rank_to_size(new_rank)
        m1       == Store(m, buddy2, Header(new_rank, fl1[new_rank]))
        fl2      == [fl1 EXCEPT ![new_rank] = buddy2]
        m2       == Store(m1, block, Header(new_rank, fl2[new_rank]))
        fl3      == [fl2 EXCEPT ![new_rank] = block]
    IN  [fl |-> fl3, mem |-> m2]

\* SplitStep leaving the first half's header at the rank of the block split.
SplitStepStaleRank(fl, m, current_rank) ==
    LET block    == fl[current_rank]
        fl1      == [fl EXCEPT ![current_rank] = m[block].next]
        new_rank == current_rank - 1
        m1       == Store(m, block, Header(current_rank, fl1[new_rank]))
        fl2      == [fl1 EXCEPT ![new_rank] = block]
        buddy2   == block + rank_to_size(new_rank)
        m2       == Store(m1, buddy2, Header(new_rank, fl2[new_rank]))
        fl3      == [fl2 EXCEPT ![new_rank] = buddy2]
    IN  [fl |-> fl3, mem |-> m2]

\* One iteration of the split loop: the head block of current_rank is removed,
\* its first half and then its second half are pushed on the rank below.
SplitStep(fl, m, current_rank) ==
    LET block    == fl[current_rank]
        fl1      == [fl EXCEPT ![current_rank] = m[block].next]
        new_rank == current_rank - 1
        m1       == Store(m, block, Header(new_rank, fl1[new_rank]))
        fl2      == [fl1 EXCEPT ![new_rank] = block]
        buddy2   == block + rank_to_size(new_rank)
        m2       == Store(m1, buddy2, Header(new_rank, fl2[new_rank]))
        fl3      == [fl2 EXCEPT ![new_rank] = buddy2]
    IN  [fl |-> fl3, mem |-> m2]

RECURSIVE SplitLoop(_, _, _, _)
SplitLoop(fl, m, current_rank, rank) ==
    IF current_rank > rank
    THEN LET s == SplitStep(fl, m, current_rank)
         IN  SplitLoop(s.fl, s.mem, current_rank - 1, rank)
    ELSE [fl |-> fl, mem |-> m]

\* AllocResult refusing the arena's largest rank (>= for >).
AllocResultOffByOne(rank) ==
    IF rank < 1 \/ rank > MAX_RANK THEN Err("EINVAL")
    ELSE IF memory_base = NULL THEN Err("ENOSPC")
    ELSE IF rank >= max_rank THEN Err("ENOSPC")
    ELSE IF ScanRank(free_lists, rank, max_rank) > max_rank THEN Err("ENOSPC")
    ELSE LET s == SplitLoop(free_lists, mem,
                            ScanRank(free_lists, rank, max_rank), rank)
         IN  Ok(s.fl[rank] + HDR_SIZE)

\* The result of alloc_pages(rank) in the current state, before any change.
AllocResult(rank) ==
    IF rank < 1 \/ rank > MAX_RANK THEN Err("EINVAL")
    ELSE IF memory_base = NULL THEN Err("ENOSPC")
    ELSE IF rank > max_rank THEN Err("ENOSPC")
    ELSE IF ScanRank(free_lists, rank, max_rank) > max_rank THEN Err("ENOSPC")
    ELSE LET s == SplitLoop(free_lists, mem,
                            ScanRank(free_lists, rank, max_rank), rank)
         IN  Ok(s.fl[rank] + HDR_SIZE)

AllocRanks == {0, 1, 2, 3, 5, MAX_RANK, MAX_RANK + 1}

AllocPages ==
    Running /\ \E rank \in AllocRanks :
         LET ret == AllocResult(rank)
         IN  IF ret.err # "OK"
             THEN /\ hist' = Call("alloc", rank, ret)
                  /\ UNCHANGED <<memory_base, total_pages, max_rank, free_lists, mem, held, nops, lastChange>>
             ELSE /\ Cardinality(held) < MaxHeld
                  /\ OpsLeft
                  /\ nops' = nops + 1
                  /\ LET s == SplitLoop(free_lists, mem,
                                        ScanRank(free_lists, rank, max_rank), rank)
                         alloc_block == s.fl[rank]
                     IN  /\ free_lists' = [s.fl EXCEPT ![rank] = s.mem[alloc_block].next]
                         /\ mem' = s.mem
                         /\ held' = held \cup {[ptr |-> alloc_block + HDR_SIZE, rank |-> rank]}
                  /\ hist' = Call("alloc", rank, ret)
                  /\ lastChange' = Change("alloc", rank, ret)
                  /\ UNCHANGED <<memory_base, total_pages, max_rank>>

----------------------------------------------------------------------------
(* return_pages *)

\* The rank return_pages files the block under.
FreeRank(p) == 1

\* The merge loop of return_pages, entered with block already on rank's list.
RECURSIVE MergeLoop(_, _, _, _)
MergeLoop(fl, m, block, rank) ==
    IF rank < max_rank
    THEN LET buddy_addr == get_buddy(block, rank)
             u1 == Unlink(fl, m, rank, buddy_addr)
         IN  IF ~u1.found THEN [hang |-> u1.hang, fl |-> fl, mem |-> m]
             ELSE LET u2     == Unlink(u1.fl, u1.mem, rank, block)
                      merged == Min(block, buddy_addr)
                      m3     == Store(u2.mem, merged, Header(rank + 1, u2.fl[rank + 1]))
                      fl3    == [u2.fl EXCEPT ![rank + 1] = merged]
                  IN  IF u2.hang THEN [hang |-> TRUE, fl |-> u2.fl, mem |-> u2.mem]
                      ELSE MergeLoop(fl3, m3, merged, rank + 1)
    ELSE [hang |-> FALSE, fl |-> fl, mem |-> m]

FreeFails(p) ==
    \/ p = NULL
    \/ ~is_valid_address(p)
    \/ memory_base = NULL
    \/ ~is_valid_address(p - HDR_SIZE)

\* Pointers the caller passes: the ones it holds, and ones that are rejected.
BadPointers ==
    {NULL, ArenaBase + HDR_SIZE - 1, ArenaBase + total_pages * PAGE_SIZE}
FreePointers == {h.ptr : h \in held} \cup {p \in BadPointers : FreeFails(p)}

\* return_pages(p) for a p drawn from `pointers`.
ReturnPagesOf(pointers) ==
    Running /\ \E p \in pointers :
         IF FreeFails(p)
         THEN /\ hist' = Call("free", p, Err("EINVAL"))
              /\ UNCHANGED <<memory_base, total_pages, max_rank, free_lists, mem, held, nops, lastChange>>
         ELSE LET block == p - HDR_SIZE
                  rank  == FreeRank(p)
                  m1    == Store(mem, block, Header(rank, free_lists[rank]))
                  fl1   == [free_lists EXCEPT ![rank] = block]
                  r     == MergeLoop(fl1, m1, block, rank)
                  ret   == IF r.hang THEN Hang ELSE Ok(0)
              IN  /\ free_lists' = r.fl
                  /\ mem' = r.mem
                  /\ held' = {h \in held : h.ptr # p}
                  /\ hist' = Call("free", p, ret)
                  /\ lastChange' = Change("free", p, ret)
                  /\ OpsLeft
                  /\ nops' = nops + 1
                  /\ UNCHANGED <<memory_base, total_pages, max_rank>>

\* The caller returns what it holds (or passes a pointer that is rejected).
ReturnPages == ReturnPagesOf(FreePointers)

\* Pointers of a caller that does not keep to what it holds: the data address
\* of any of the first pages of the arena, whether that page starts a held
\* block, starts a free block or lies inside a block.
MisusePages == 2
AnyPointers ==
    {ArenaBase + k * PAGE_SIZE + HDR_SIZE : k \in 0..(Min(MisusePages, total_pages) - 1)}

ReturnPagesAny == ReturnPagesOf(AnyPointers)

----------------------------------------------------------------------------
(* query_ranks and query_page_counts *)

\* The ranks whose free list has a block whose data area holds p.
RanksHolding(p) ==
    {rank \in 1..max_rank :
        \E current \in Range(ListOf(free_lists, mem, rank)) :
            /\ p >= current + HDR_SIZE
            /\ p < current + HDR_SIZE + rank_to_size(rank)}

\* The ranks whose list the search would walk without end.
RanksCyclic == {rank \in 1..max_rank : Cyclic(free_lists, mem, rank)}

Least(S) == CHOOSE x \in S : \A y \in S : x <= y

\* The lists are searched in ascending rank; the search returns at the first
\* block that holds p, and leaves a list only at its NULL end.
QueryRanksResult(p) ==
    IF p = NULL \/ ~is_valid_address(p) THEN Err("EINVAL")
    ELSE IF memory_base = NULL THEN Err("EINVAL")
    ELSE IF RanksHolding(p) # {}
            /\ \A c \in RanksCyclic : Least(RanksHolding(p)) <= c
         THEN Ok(Least(RanksHolding(p)))
         ELSE IF RanksCyclic # {} THEN Hang
         ELSE Ok(1)

QueryPointers ==
    {h.ptr : h \in held} \cup {NULL, ArenaBase, ArenaBase + HDR_SIZE}

QueryRanks ==
    /\ Running
    /\ \E p \in QueryPointers :
         hist' = Call("query_rank", p, QueryRanksResult(p))
    /\ UNCHANGED <<memory_base, total_pages, max_rank, free_lists, mem, held, nops, lastChange>>

\* QueryPageCountsResult with the lower bound of the rank check off by one.
QueryPageCountsResultAcceptsZero(rank) ==
    IF rank < 0 \/ rank > MAX_RANK THEN Err("EINVAL")
    ELSE IF memory_base # NULL /\ rank <= max_rank /\ Cyclic(free_lists, mem, rank)
    THEN Hang
    ELSE Ok(FreeCount(Snapshot, rank))

QueryPageCountsResult(rank) ==
    IF rank < 1 \/ rank > MAX_RANK THEN Err("EINVAL")
    ELSE IF memory_base # NULL /\ rank <= max_rank /\ Cyclic(free_lists, mem, rank)
    THEN Hang
    ELSE Ok(FreeCount(Snapshot, rank))

QueryCountRanks == {0, 1, 2, MAX_RANK, MAX_RANK + 1}

\* QueryPageCounts counting with the list head itself, which it leaves at NULL.
QueryPageCountsConsumes ==
    /\ Running
    /\ \E rank \in QueryCountRanks :
         /\ hist' = Call("query_free_count", rank, QueryPageCountsResult(rank))
         /\ free_lists' =
               IF rank \in 1..MAX_RANK /\ memory_base # NULL /\ rank <= max_rank
               THEN [free_lists EXCEPT ![rank] = NULL]
               ELSE free_lists
    /\ UNCHANGED <<memory_base, total_pages, max_rank, mem, held, nops, lastChange>>

QueryPageCounts ==
    /\ Running
    /\ \E rank \in QueryCountRanks :
         hist' = Call("query_free_count", rank, QueryPageCountsResult(rank))
    /\ UNCHANGED <<memory_base, total_pages, max_rank, free_lists, mem, held, nops, lastChange>>

----------------------------------------------------------------------------
(* The state machine *)

NoChange == [op |-> "none", arg |-> 0, ret |-> Ok(0),
             counts |-> [k \in 1..MAX_RANK |-> 0]]

NoCall == [op |-> "none", arg |-> 0, ret |-> Ok(0),
           pre |-> [memory_base |-> NULL, total_pages |-> 0, max_rank |-> 0,
                    free_lists |-> [i \in 0..MAX_RANK |-> NULL],
                    mem |-> <<>>, held |-> {}, lastChange |-> NoChange]]

Init ==
    /\ memory_base = NULL
    /\ total_pages = 0
    /\ max_rank = 0
    /\ free_lists = [i \in 0..MAX_RANK |-> NULL]
    /\ mem = <<>>
    /\ held = {}
    /\ hist = NoCall
    /\ lastChange = NoChange
    /\ nops = 0

Next ==
    \/ InitPage
    \/ AllocPages
    \/ ReturnPages
    \/ QueryRanks
    \/ QueryPageCounts

Spec == Init /\ [][Next]_vars

\* The same allocator with a caller that also returns pointers it does not
\* hold.
NextMisuse ==
    \/ Next
    \/ ReturnPagesAny

SpecMisuse == Init /\ [][NextMisuse]_vars

----------------------------------------------------------------------------
(* Vocabulary of the properties *)

\* The blocks of the free lists of state st, each with the rank of its list.
FreeBlocks(st) ==
    UNION {{[addr |-> a, rank |-> r, kind |-> "free"] :
                a \in Range(ListOf(st.free_lists, st.mem, r))} : r \in 1..MAX_RANK}

\* The blocks the caller holds in state st, each with the rank it asked for.
HeldBlocks(st) ==
    {[addr |-> h.ptr - HDR_SIZE, rank |-> h.rank, kind |-> "held"] : h \in st.held}

BlockSize(b) == rank_to_size(b.rank)

RECURSIVE SumSizes(_)
SumSizes(bs) ==
    IF bs = {} THEN 0
    ELSE LET b == CHOOSE x \in bs : TRUE IN BlockSize(b) + SumSizes(bs \ {b})

\* Two blocks share a byte (hence, both being page aligned, a page).
Overlap(b1, b2) ==
    /\ b1.addr < b2.addr + BlockSize(b2)
    /\ b2.addr < b1.addr + BlockSize(b1)

\* The last call was op and returned without error.
Succeeded(op) == hist.op = op /\ hist.ret.err = "OK"

\* The last call was a successful free of a block the caller held.
HeldBefore == {h \in hist.pre.held : h.ptr = hist.arg}
FreedHeld == Succeeded("free") /\ HeldBefore # {}

----------------------------------------------------------------------------
(* C1 *)

\* C1: conservation.  Once the arena is initialised, the sizes of the blocks in
\* the free lists plus the sizes of the blocks held add up to
\* total_pages * PAGE_SIZE.
C1_Conservation ==
    memory_base # NULL =>
        SumSizes(FreeBlocks(Snapshot)) + SumSizes(HeldBlocks(Snapshot))
            = total_pages * PAGE_SIZE

----------------------------------------------------------------------------
(* C2 *)

AllBlocks(st) == FreeBlocks(st) \cup HeldBlocks(st)

\* C2: no overlap.  No two blocks among the free-list blocks of all ranks and
\* the blocks held cover a common page; so no block handed out by alloc shares
\* a page with another held block or with a block left in a free list.
C2_NoOverlap ==
    \A b1, b2 \in AllBlocks(Snapshot) : b1 # b2 => ~Overlap(b1, b2)

\* A block was freed while another is still held and free blocks of two ranks
\* or more exist.
C2_Witness ==
    /\ FreedHeld
    /\ held # {}
    /\ Cardinality(FreeBlocks(Snapshot)) >= 3

----------------------------------------------------------------------------
(* C3 *)

\* C3: round trip.  When alloc(r) returned p and free(p) is the next call that
\* changes the state, free(p) succeeds and every rank's free count is back at
\* its value before the alloc.
C3_RoundTrip ==
    (/\ hist.op = "free"
     /\ hist.pre.lastChange.op = "alloc"
     /\ hist.pre.lastChange.ret.val = hist.arg)
    => /\ hist.ret.err = "OK"
       /\ Counts(Snapshot) = hist.pre.lastChange.counts

----------------------------------------------------------------------------
(* C4 *)

BuddyIsFree(st, block, rank) ==
    /\ rank < st.max_rank
    /\ get_buddy(block, rank) \in Range(ListOf(st.free_lists, st.mem, rank))

\* C4: free recovers the block's rank.  Freeing a held block of rank r whose
\* rank-r buddy is not free raises the free count of rank r by one and leaves
\* every other rank's free count as it was.
C4_FreeRecoversRank ==
    FreedHeld =>
        \A h \in HeldBefore :
            ~BuddyIsFree(hist.pre, h.ptr - HDR_SIZE, h.rank) =>
                \A k \in 1..MAX_RANK :
                    FreeCount(Snapshot, k) =
                        FreeCount(hist.pre, k) + (IF k = h.rank THEN 1 ELSE 0)

----------------------------------------------------------------------------
(* C5 *)

\* The blocks of the binary decomposition of `pages`: for each set bit, from
\* the highest down, one block of that rank at the next unused offset.
RECURSIVE Seed(_, _, _)
Seed(pages, rank, offset) ==
    IF rank = 0 THEN {}
    ELSE IF pages >= Pow2(rank - 1)
    THEN {[addr |-> memory_base + offset, rank |-> rank, kind |-> "free"]}
            \cup Seed(pages - Pow2(rank - 1), rank - 1, offset + rank_to_size(rank))
    ELSE Seed(pages, rank - 1, offset)

\* C5: init seeds the whole region.  After a successful init the free lists
\* hold exactly the blocks of the binary decomposition of page_count, so their
\* sizes add up to page_count * PAGE_SIZE.
C5_InitSeedsWholeRegion ==
    Succeeded("init") =>
        /\ FreeBlocks(Snapshot) = Seed(total_pages, MAX_RANK, 0)
        /\ SumSizes(FreeBlocks(Snapshot)) = total_pages * PAGE_SIZE

----------------------------------------------------------------------------
(* C6 *)

LargestRankFitting(pages) ==
    CHOOSE r \in 1..MAX_RANK :
        /\ Pow2(r - 1) <= pages
        /\ \A k \in 1..MAX_RANK : Pow2(k - 1) <= pages => k <= r

\* C6: max_rank.  After a successful init, max_rank is the largest rank in
\* 1..MAX_RANK with 2^(rank-1) <= page_count; with 16 pages it is 5, with one
\* free block at rank 5 and none elsewhere.
C6_MaxRank ==
    Succeeded("init") =>
        /\ max_rank = LargestRankFitting(total_pages)
        /\ total_pages = 16 =>
              /\ max_rank = 5
              /\ \A k \in 1..MAX_RANK :
                    FreeCount(Snapshot, k) = (IF k = 5 THEN 1 ELSE 0)

----------------------------------------------------------------------------
(* C7 *)

\* The state st is a fresh arena of 2^(m-1) pages: a single free block, of
\* rank m = max_rank, and nothing held.
FreshPow2Arena(st) ==
    /\ st.lastChange.op = "init"
    /\ st.total_pages = Pow2(st.max_rank - 1)
    /\ st.held = {}
    /\ FreeBlocks(st) =
         {[addr |-> st.memory_base, rank |-> st.max_rank, kind |-> "free"]}

\* C7: split cascade.  A successful alloc(r) on a fresh arena of 2^(m-1) pages
\* leaves one free block at each rank r..m-1, none at rank m and none below r,
\* and one held block of rank r.
C7_SplitCascade ==
    (Succeeded("alloc") /\ FreshPow2Arena(hist.pre)) =>
        /\ \A k \in 1..MAX_RANK :
              Len(ListOf(free_lists, mem, k)) =
                  (IF hist.arg <= k /\ k < max_rank THEN 1 ELSE 0)
        /\ Cardinality(held) = 1
        /\ \A h \in held : h.rank = hist.arg

\* Scenario B: alloc(1) on the fresh 16-page arena.
C7_Witness ==
    /\ Succeeded("alloc")
    /\ FreshPow2Arena(hist.pre)
    /\ total_pages = 16
    /\ hist.arg = 1

----------------------------------------------------------------------------
(* C8 *)

\* C8: full coalescing.  (a) Freeing a held block of rank r < max_rank whose
\* rank-r buddy is in the rank-r free list takes that buddy off the list and
\* leaves a free block of a higher rank that starts at or below both.  (b)
\* After a free no list of a rank below max_rank holds two blocks that are
\* buddies of each other.  (c) Freeing the only held block, of rank 1, of an
\* arena of 2^(max_rank-1) pages leaves one free block at max_rank and none
\* below.
C8_FullCoalescing ==
    FreedHeld =>
        /\ \A h \in HeldBefore :
              LET block == h.ptr - HDR_SIZE
                  buddy == get_buddy(block, h.rank)
              IN  BuddyIsFree(hist.pre, block, h.rank) =>
                    /\ buddy \notin Range(ListOf(free_lists, mem, h.rank))
                    /\ \E b \in FreeBlocks(Snapshot) :
                          /\ b.rank > h.rank
                          /\ b.addr <= Min(block, buddy)
                          /\ Min(block, buddy) < b.addr + BlockSize(b)
        /\ \A b1, b2 \in FreeBlocks(Snapshot) :
              (b1.rank = b2.rank /\ b1.rank < max_rank) =>
                  get_buddy(b1.addr, b1.rank) # b2.addr
        /\ (/\ total_pages = Pow2(max_rank - 1)
            /\ Cardinality(hist.pre.held) = 1
            /\ \A h \in hist.pre.held : h.rank = 1)
           => \A k \in 1..MAX_RANK :
                 FreeCount(Snapshot, k) = (IF k = max_rank THEN 1 ELSE 0)

----------------------------------------------------------------------------
(* C9 *)

NoFreeBlockFrom(st, rank) ==
    \A k \in rank..st.max_rank : ListOf(st.free_lists, st.mem, k) = <<>>

\* C9: alloc outcomes.  alloc(rank) returns EINVAL exactly when rank is outside
\* 1..MAX_RANK; for a rank inside, on an initialised arena, it returns ENOSPC
\* exactly when rank > max_rank or every free list of ranks rank..max_rank is
\* empty, and succeeds otherwise.
C9_AllocOutcomes ==
    hist.op = "alloc" =>
        /\ hist.ret.err = "EINVAL" <=> (hist.arg < 1 \/ hist.arg > MAX_RANK)
        /\ (hist.arg \in 1..MAX_RANK /\ hist.pre.memory_base # NULL) =>
              /\ hist.ret.err = "ENOSPC" <=>
                    (hist.arg > hist.pre.max_rank \/ NoFreeBlockFrom(hist.pre, hist.arg))
              /\ hist.ret.err \in {"ENOSPC", "OK"}
              /\ hist.ret.err = "OK" => [ptr |-> hist.ret.val, rank |-> hist.arg] \in held

\* Scenario D: the second alloc(5) on the 16-page arena returns ENOSPC.
C9_Witness ==
    /\ hist.op = "alloc"
    /\ hist.arg = 5
    /\ hist.ret.err = "ENOSPC"
    /\ total_pages = 16
    /\ held = {[ptr |-> memory_base + HDR_SIZE, rank |-> 5]}

----------------------------------------------------------------------------
(* C10 *)

\* C10: failed calls change nothing.  After a call of init, alloc, free,
\* query_rank or query_free_count that returned an error, the free lists, the
\* block headers and the arena fields are what they were before the call.
C10_ErrorsLeaveState ==
    hist.ret.err # "OK" =>
        /\ memory_base = hist.pre.memory_base
        /\ total_pages = hist.pre.total_pages
        /\ max_rank = hist.pre.max_rank
        /\ free_lists = hist.pre.free_lists
        /\ mem = hist.pre.mem

\* A call failed on an arena that is initialised and has blocks held.
C10_Witness ==
    /\ hist.ret.err # "OK"
    /\ hist.op \in {"init", "free"}
    /\ memory_base # NULL
    /\ held # {}

----------------------------------------------------------------------------
(* C11 *)

\* p is the data address of a block of state st, free or held.
DenotesBlock(st, p) == \E b \in AllBlocks(st) : b.addr = p - HDR_SIZE

InArena(st, p) ==
    /\ st.memory_base # NULL
    /\ p >= st.memory_base
    /\ p < st.memory_base + st.total_pages * PAGE_SIZE

\* C11: free validates its argument.  free(p) with p null, outside the arena,
\* or inside the arena but not the address of a block, returns an error and
\* leaves every free list as it was.
C11_FreeValidates ==
    (/\ hist.op = "free"
     /\ \/ hist.arg = NULL
        \/ ~InArena(hist.pre, hist.arg)
        \/ ~DenotesBlock(hist.pre, hist.arg))
    => /\ hist.ret.err \notin {"OK", "HANG"}
       /\ free_lists = hist.pre.free_lists
       /\ mem = hist.pre.mem

----------------------------------------------------------------------------
(* C12 *)

\* C12: query_rank returns the block's rank.  For a held pointer obtained by
\* alloc(r) it returns r; for the address of a free block of rank k it returns
\* k; for a pointer outside the arena it returns an error.
C12_QueryRank ==
    hist.op = "query_rank" =>
        /\ \A h \in hist.pre.held : h.ptr = hist.arg => hist.ret = Ok(h.rank)
        /\ \A b \in FreeBlocks(hist.pre) : b.addr = hist.arg => hist.ret = Ok(b.rank)
        /\ ~InArena(hist.pre, hist.arg) => hist.ret.err = "EINVAL"

----------------------------------------------------------------------------
(* C13 *)

\* The bytes [lo1, hi1) and [lo2, hi2) have one in common.
RangesMeet(lo1, hi1, lo2, hi2) == lo1 < hi2 /\ lo2 < hi1

\* C13: the region handed out is safe.  For every held pointer p of rank r the
\* bytes [p, p + size(r)) lie inside the arena and meet no free block and no
\* other held pointer's bytes.
C13_RegionSafe ==
    \A h \in held :
        LET lo == h.ptr
            hi == h.ptr + rank_to_size(h.rank)
        IN  /\ lo >= memory_base
            /\ hi <= memory_base + total_pages * PAGE_SIZE
            /\ \A b \in FreeBlocks(Snapshot) :
                  ~RangesMeet(lo, hi, b.addr, b.addr + BlockSize(b))
            /\ \A g \in held \ {h} :
                  ~RangesMeet(lo, hi, g.ptr, g.ptr + rank_to_size(g.rank))

----------------------------------------------------------------------------
(* C14 *)

\* C14: termination.  No call runs for ever, and no free list holds a cycle.
C14_Terminates ==
    /\ Running
    /\ \A k \in 1..MAX_RANK : ~Cyclic(free_lists, mem, k)

----------------------------------------------------------------------------
(* C15 *)

\* The free blocks of rank `rank`, counted as a set.
BlocksOfRank(st, rank) == {b \in FreeBlocks(st) : b.rank = rank}

\* C15: query_free_count.  It returns EINVAL for a rank outside 1..MAX_RANK, 0
\* on an uninitialised arena or for a rank above max_rank, and otherwise the
\* number of blocks in the rank's free list.
C15_QueryFreeCount ==
    hist.op = "query_free_count" =>
        hist.ret =
            IF hist.arg < 1 \/ hist.arg > MAX_RANK THEN Err("EINVAL")
            ELSE IF hist.pre.memory_base = NULL \/ hist.arg > hist.pre.max_rank
            THEN Ok(0)
            ELSE Ok(Cardinality(BlocksOfRank(hist.pre, hist.arg)))

\* The count 2 was returned for rank 1 while a block is held.
C15_Witness ==
    /\ hist.op = "query_free_count"
    /\ hist.arg = 1
    /\ hist.ret = Ok(2)
    /\ held # {}

----------------------------------------------------------------------------
(* C16 *)

\* C16: queries are read-only.  After query_rank or query_free_count the free
\* lists, the headers and the arena fields are what they were before it, so the
\* same query made again returns the same result.
C16_QueriesReadOnly ==
    hist.op \in {"query_rank", "query_free_count"} =>
        /\ memory_base = hist.pre.memory_base
        /\ total_pages = hist.pre.total_pages
        /\ max_rank = hist.pre.max_rank
        /\ free_lists = hist.pre.free_lists
        /\ mem = hist.pre.mem
        /\ hist.op = "query_rank" => QueryRanksResult(hist.arg) = hist.ret
        /\ hist.op = "query_free_count" => QueryPageCountsResult(hist.arg) = hist.ret

\* A query answered on an arena with free blocks at rank 1 and a block held.
C16_Witness ==
    /\ hist.op = "query_free_count"
    /\ hist.arg = 1
    /\ hist.ret.err = "OK"
    /\ hist.ret.val >= 1
    /\ held # {}

----------------------------------------------------------------------------
(* C17 *)

\* What the last alloc found: the rank r asked for, the smallest rank cr >= r
\* whose list was not empty, and the block `removed` at the head of that list.
ChosenRank ==
    Least({k \in hist.arg..hist.pre.max_rank :
              ListOf(hist.pre.free_lists, hist.pre.mem, k) # <<>>})
RemovedBlock == Head(ListOf(hist.pre.free_lists, hist.pre.mem, ChosenRank))
AllocatedBlock == hist.ret.val - HDR_SIZE

\* The lists of the ranks the alloc did not touch are as before, and the list
\* of the chosen rank has lost its head.
AllocFrame ==
    /\ ListOf(free_lists, mem, ChosenRank) =
         Tail(ListOf(hist.pre.free_lists, hist.pre.mem, ChosenRank))
    /\ \A k \in 1..MAX_RANK :
          (k < hist.arg \/ k > ChosenRank) =>
              ListOf(free_lists, mem, k) = ListOf(hist.pre.free_lists, hist.pre.mem, k)

\* C17, as claimed: the block is taken from the smallest non-empty list at a
\* rank >= rank; at each split the second half goes on the lower rank's list
\* and the first half is split further or returned, so the allocated block
\* starts where the removed block starts.
C17_BlockSelection ==
    Succeeded("alloc") =>
        /\ AllocFrame
        /\ AllocatedBlock = RemovedBlock
        /\ \A k \in hist.arg..(ChosenRank - 1) :
              ListOf(free_lists, mem, k) = <<RemovedBlock + rank_to_size(k)>>

\* C17, amended: the block is taken from the smallest non-empty list at a rank
\* >= rank; at each split the first half stays on the lower rank's list and the
\* second half is split further or returned, so the allocated block is the
\* last size(rank) bytes of the removed block; the pointer returned is
\* HDR_SIZE bytes past its start.
C17_BlockSelectionHighHalf ==
    Succeeded("alloc") =>
        LET end == RemovedBlock + rank_to_size(ChosenRank)
        IN  /\ AllocFrame
            /\ AllocatedBlock = end - rank_to_size(hist.arg)
            /\ \A k \in hist.arg..(ChosenRank - 1) :
                  ListOf(free_lists, mem, k) = <<end - 2 * rank_to_size(k)>>

\* An alloc that split a block twice or more while another block was held.
C17_Witness ==
    /\ Succeeded("alloc")
    /\ hist.pre.held # {}
    /\ ChosenRank >= hist.arg + 2

----------------------------------------------------------------------------
(* C18 *)

Aligned(addr, rank) == (addr - memory_base) % rank_to_size(rank) = 0

\* C18: alignment.  Every block of the rank-k free list lies at an offset that
\* is a multiple of size(k), and every address returned by alloc(r) lies at an
\* offset that is a multiple of size(r).
C18_Alignment ==
    /\ \A b \in FreeBlocks(Snapshot) : Aligned(b.addr, b.rank)
    /\ \A h \in held : Aligned(h.ptr, h.rank)

----------------------------------------------------------------------------
(* C19 *)

\* C19: free-list membership.  Every free block is in one rank's list only and
\* once in it, its header holds the rank of that list, and no held block is in
\* a free list.
C19_Membership ==
    /\ \A k \in 1..MAX_RANK : ~Cyclic(free_lists, mem, k)
    /\ \A k1, k2 \in 1..MAX_RANK :
          k1 # k2 =>
              Range(ListOf(free_lists, mem, k1)) \cap Range(ListOf(free_lists, mem, k2)) = {}
    /\ \A k \in 1..MAX_RANK :
          \A a \in Range(ListOf(free_lists, mem, k)) : mem[a].rank = k
    /\ \A h \in held :
          \A k \in 1..MAX_RANK : (h.ptr - HDR_SIZE) \notin Range(ListOf(free_lists, mem, k))

\* Two blocks are held and free blocks of several ranks exist, after an alloc.
C19_Witness ==
    /\ Succeeded("alloc")
    /\ Cardinality(held) >= 2
    /\ Cardinality(FreeBlocks(Snapshot)) >= 3

----------------------------------------------------------------------------
(* C20 *)

\* C20: quiescent restoration.  Whenever the arena is initialised and nothing
\* is held, the free lists hold the blocks they held right after init (the
\* single block of rank max_rank at the arena base), and alloc(max_rank) would
\* succeed.
C20_QuiescentRestoration ==
    (memory_base # NULL /\ held = {}) =>
        /\ FreeBlocks(Snapshot) =
              {[addr |-> memory_base, rank |-> max_rank, kind |-> "free"]}
        /\ AllocResult(max_rank).err = "OK"

====
